---- MODULE Spec2Model ----
(***************************************************************************)
(* Transfer engine of the VanEck ETF downloader:                           *)
(*   - RateLimiter            (src/vaneck/src/downloader/core.py)          *)
(*   - DownloadStats, ETFDownloader.download_file_sync/async,              *)
(*     download_funds_async, download_all_funds                            *)
(*                            (src/vaneck/src/vaneck_downloader/           *)
(*                             downloader.py)                              *)
(*   - DownloadSession.download_all (core.py), Config (config.py)          *)
(* The specifications of the module: SpecRate and SpecRateLive (the rate   *)
(* limiter, without and with fairness), SpecFile (one request, every       *)
(* server behaviour), SpecTamper (one request, files changed between the   *)
(* runs), SpecBatch (several requests, the counters and the semaphore),    *)
(* SpecBatchLive (an asynchronous batch with fairness), SpecStats          *)
(* (DownloadStats and its summary), SpecConfig (Config).                   *)
(***************************************************************************)
EXTENDS Integers, Sequences, FiniteSets, TLC

(***************************************************************************)
(* Bounds of the model.                                                    *)
(***************************************************************************)
NumCallers == 2      \* concurrent callers of RateLimiter.acquire()
MaxCalls == 4        \* acquire() calls that are started in one behaviour
MaxRate == 2         \* calls_per_minute is drawn from 0..MaxRate
MaxTime == 5         \* the clock runs from 0 to MaxTime ticks

MaxLen == 2          \* longest remote content and longest initial local file
NumReqs == 2         \* most requests in one batch
MaxConc == 2         \* max_concurrent_downloads is drawn from 1..MaxConc
MaxRuns == 2         \* batch runs in one behaviour
MaxErrors == 11      \* failures recorded on one DownloadStats
MaxConf == 2         \* integer settings of Config are drawn from -MaxConf..MaxConf

\* timedelta(minutes=1), in clock ticks (one tick stands for 30 seconds)
Minute == 2

VARIABLES
    calls_per_minute,   \* RateLimiter.calls_per_minute
    calls_made,         \* RateLimiter.calls_made
    window_start,       \* RateLimiter.window_start
    lock,               \* RateLimiter._lock: the caller holding it, or NoCaller
    clock,              \* datetime.now()
    cpc,                \* position of each caller in acquire()
    wakeAt,             \* end of each caller's asyncio.sleep
    returns             \* history: the clock value at each return of acquire()

rateVars == <<calls_per_minute, calls_made, window_start, lock, clock, cpc,
              wakeAt, returns>>

VARIABLES
    engine,             \* "funds": ETFDownloader of downloader.py,
                        \* "session": DownloadSession.download_all of core.py
    nreq,               \* number of requests of the batch (document_urls of the funds)
    entry,              \* the method called: "download_all_funds" or
                        \* "download_funds_async"
    use_async,          \* the argument use_async of download_all_funds
    enable_resume,      \* Config.enable_resume
    chunk_size,         \* Config.chunk_size, in bytes
    max_concurrent,     \* Config.max_concurrent_downloads
    srv,                \* the remote server's behaviour for each request's url
    served,             \* GETs the server has answered for each url
    local,              \* the file at each request's local_path
    store,              \* StorageManager's metadata: the saved download records
    stats,              \* ETFDownloader.stats (DownloadStats)
    sem,                \* value of the asyncio.Semaphore of download_funds_async
    pc,                 \* position of each request's download
    tx,                 \* locals of download_file_sync / download_file_async
    run,                \* number of the current batch run
    phase,              \* "idle", "running", "returned" or "raised"
    results,            \* DownloadSession.results
    errors,             \* DownloadSession.errors
    outcome,            \* history: how each request ended in the current run
    getlog,             \* history: the GETs issued for each request in the current run
    saves,              \* history: save_download_record calls per request, current run
    atStart,            \* history: file, record and answered GETs of each request
                        \* when the run began
    prev,               \* history: outcome and GETs of each request in the previous run
    batches,            \* history: batches started on the current ETFDownloader
    faults,             \* history: what the environment did to each request in the
                        \* current run: "connection" (the GET raised), "open"
                        \* (mkdir or open raised), "stream" (a read of the body
                        \* raised), "exists" (local_path.exists() raised),
                        \* "reread" (the written file could not be read again)
    summary,            \* what the last call of DownloadStats.get_summary() gave
    config,             \* the arguments of a call Config(...)
    built               \* how that call ended: "pending", "ok" or "ValueError"

confVars == <<engine, entry, nreq, use_async, enable_resume, chunk_size, max_concurrent, srv>>
sessVars == <<results, errors>>
cliVars == <<summary, config, built>>
xferVars == <<served, local, store, stats, sem, pc, tx, run, phase>>
histVars == <<outcome, getlog, saves, atStart, prev, batches, faults>>

Callers == 1..NumCallers
NoCaller == 0

(***************************************************************************)
(* RateLimiter                                                             *)
(***************************************************************************)
\* core.py:160-170  RateLimiter.__init__
RateLimiterInit ==
    /\ calls_per_minute \in 0..MaxRate
    /\ calls_made = 0
    /\ window_start = 0
    /\ lock = NoCaller
    /\ clock = 0
    /\ cpc = [c \in Callers |-> "idle"]
    /\ wakeAt = [c \in Callers |-> 0]
    /\ returns = <<>>

\* core.py:188  now - self.window_start >= timedelta(minutes=1)
WindowExpired(now, ws) == now - ws >= Minute

AfterSleepKeep(cm) == cm
\* core.py:203  self.calls_made = 0 after the sleep
AfterSleepReset(cm) == 0

\* core.py:189-190  the counter and the window after the expiry check
CallsAfterCheck(now) == IF WindowExpired(now, window_start) THEN 0 ELSE calls_made
StartAfterCheck(now) == IF WindowExpired(now, window_start) THEN now ELSE window_start

WaitTicksShort(now) == (StartAfterCheck(now) + Minute) - now - 1
\* core.py:195-196  wait_seconds = (window_start + 1 minute - now)
WaitTicks(now) == (StartAfterCheck(now) + Minute) - now

\* a caller invokes acquire() and queues on the lock (core.py:184)
Call(c) ==
    /\ cpc[c] = "idle"
    /\ Len(returns) + Cardinality({d \in Callers : cpc[d] # "idle"}) < MaxCalls
    /\ cpc' = [cpc EXCEPT ![c] = "waiting"]
    /\ UNCHANGED <<calls_per_minute, calls_made, window_start, lock, clock,
                   wakeAt, returns>>
    /\ UNCHANGED <<confVars, xferVars, sessVars, histVars, cliVars>>

EnterUnlocked(c) ==
    /\ cpc[c] = "waiting"
    /\ LET now == clock
           cm  == CallsAfterCheck(now)
           ws  == StartAfterCheck(now)
       IN  IF cm >= calls_per_minute /\ WaitTicks(now) > 0
           THEN /\ calls_made' = cm
                /\ window_start' = ws
                /\ lock' = c
                /\ cpc' = [cpc EXCEPT ![c] = "sleeping"]
                /\ wakeAt' = [wakeAt EXCEPT ![c] = now + WaitTicks(now)]
                /\ UNCHANGED returns
           ELSE /\ calls_made' = cm + 1
                /\ window_start' = ws
                /\ lock' = NoCaller
                /\ cpc' = [cpc EXCEPT ![c] = "idle"]
                /\ returns' = Append(returns, clock)
                /\ UNCHANGED wakeAt
    /\ UNCHANGED <<calls_per_minute, clock>>
    /\ UNCHANGED <<confVars, xferVars, sessVars, histVars, cliVars>>
\* core.py:184-206 up to the sleep: the caller takes the lock, resets an
\* expired window, and either is admitted or goes to sleep holding the lock
Enter(c) ==
    /\ cpc[c] = "waiting"
    /\ lock = NoCaller
    /\ LET now == clock
           cm  == CallsAfterCheck(now)
           ws  == StartAfterCheck(now)
       IN  IF cm >= calls_per_minute /\ WaitTicks(now) > 0
           THEN /\ calls_made' = cm
                /\ window_start' = ws
                /\ lock' = c
                /\ cpc' = [cpc EXCEPT ![c] = "sleeping"]
                /\ wakeAt' = [wakeAt EXCEPT ![c] = now + WaitTicks(now)]
                /\ UNCHANGED returns
           ELSE /\ calls_made' = cm + 1
                /\ window_start' = ws
                /\ lock' = NoCaller
                /\ cpc' = [cpc EXCEPT ![c] = "idle"]
                /\ returns' = Append(returns, clock)
                /\ UNCHANGED wakeAt
    /\ UNCHANGED <<calls_per_minute, clock>>
    /\ UNCHANGED <<confVars, xferVars, sessVars, histVars, cliVars>>

WakeKeepsLock(c) ==
    /\ cpc[c] = "sleeping"
    /\ clock >= wakeAt[c]
    /\ calls_made' = AfterSleepReset(calls_made) + 1
    /\ window_start' = clock
    /\ lock' = c
    /\ cpc' = [cpc EXCEPT ![c] = "idle"]
    /\ returns' = Append(returns, clock)
    /\ UNCHANGED <<calls_per_minute, clock, wakeAt>>
    /\ UNCHANGED <<confVars, xferVars, sessVars, histVars, cliVars>>
\* core.py:200-206  the sleep ends: new window, the caller is admitted
Wake(c) ==
    /\ cpc[c] = "sleeping"
    /\ clock >= wakeAt[c]
    /\ calls_made' = AfterSleepReset(calls_made) + 1
    /\ window_start' = clock
    /\ lock' = NoCaller
    /\ cpc' = [cpc EXCEPT ![c] = "idle"]
    /\ returns' = Append(returns, clock)
    /\ UNCHANGED <<calls_per_minute, clock, wakeAt>>
    /\ UNCHANGED <<confVars, xferVars, sessVars, histVars, cliVars>>

\* time passes
Tick ==
    /\ clock < MaxTime
    /\ clock' = clock + 1
    /\ UNCHANGED <<calls_per_minute, calls_made, window_start, lock, cpc,
                   wakeAt, returns>>
    /\ UNCHANGED <<confVars, xferVars, sessVars, histVars, cliVars>>

\* time passes beyond MaxTime for as long as a caller's sleep has not ended
TickOver ==
    /\ clock >= MaxTime
    /\ \E c \in Callers : cpc[c] = "sleeping" /\ wakeAt[c] > clock
    /\ clock' = clock + 1
    /\ UNCHANGED <<calls_per_minute, calls_made, window_start, lock, cpc,
                   wakeAt, returns>>
    /\ UNCHANGED <<confVars, xferVars, sessVars, histVars, cliVars>>

(***************************************************************************)
(* Files, server, ledger                                                   *)
(***************************************************************************)
Reqs == 1..NumReqs
Batch == 1..nreq
Byte == {"a", "b"}

\* all byte strings of length at most n
Contents(n) == UNION {[1..k -> Byte] : k \in 0..n}

\* the remote document of length n
Target(n) == [i \in 1..n |-> IF i % 2 = 1 THEN "a" ELSE "b"]

NoFile == [exists |-> FALSE, data |-> <<>>]
File(d) == [exists |-> TRUE, data |-> d]
\* "no DownloadRecord" for a request
NoRecord == [present |-> FALSE, file_size |-> 0, checksum |-> <<>>,
             download_date |-> 0]

\* Python's None for an unknown size
None == -1
\* truth value of "expected_size" in a condition: neither None nor 0
Truthy(n) == n # None /\ n # 0

IsPrefix(p, s) == Len(p) <= Len(s) /\ \A i \in 1..Len(p) : p[i] = s[i]

\* Server behaviours.  status: what a download GET is answered with
\* ("transient": 503 to the first GET of the url, 200/206 afterwards);
\* head: the answer to HEAD; content_length / accept_ranges: the headers of a
\* successful probe; honors: a Range header is answered with 206 (or 416)
\* instead of 200 with the full content.
Servers(n) ==
    [content : {Target(k) : k \in 0..n},
     status : {"ok", "notfound", "transient"},
     head : {"ok", "405", "error"},
     cl_header : {"absent", "exact", "wrong"},
     accept_ranges : BOOLEAN,
     honors : BOOLEAN]

\* the Content-Length header of the probe's response
ContentLength(s) ==
    CASE s.cl_header = "absent" -> None
      [] s.cl_header = "exact" -> Len(s.content)
      [] OTHER -> Len(s.content) + 1

\* status code of the k-th GET of a url
GetStatus(s, k) ==
    CASE s.status = "notfound" -> 404
      [] s.status = "transient" /\ k = 1 -> 503
      [] OTHER -> 200

\* the server's answer to a GET that is the k-th of its url; range = None
\* when the request carries no Range header
GetResponse(s, k, range) ==
    IF GetStatus(s, k) # 200 THEN [code |-> GetStatus(s, k), body |-> <<>>]
    ELSE IF range # None /\ s.honors
         THEN IF range < Len(s.content)
              THEN [code |-> 206, body |-> SubSeq(s.content, range + 1, Len(s.content))]
              ELSE [code |-> 416, body |-> <<>>]
         ELSE [code |-> 200, body |-> s.content]

\* response.raise_for_status()
IsError(code) == code >= 400

\* downloader.py:92-128  _get_file_info: (file_size, supports_range) and the
\* number of GETs it issued; every exception, an error status included,
\* is caught inside and yields (None, False), so the retry decorator of
\* lines 92-95 never sees a failure
\* on a server s that has answered k GETs of the url
FileInfo(s, k) ==
    CASE s.head = "error" ->
            [size |-> None, ranges |-> FALSE, gets |-> 0]
      [] s.head = "405" /\ IsError(GetStatus(s, k + 1)) ->
            [size |-> None, ranges |-> FALSE, gets |-> 1]
      [] s.head = "405" ->
            [size |-> ContentLength(s), ranges |-> s.accept_ranges, gets |-> 1]
      [] OTHER ->
            [size |-> ContentLength(s), ranges |-> s.accept_ranges, gets |-> 0]

\* downloader.py:162  expected_size, supports_range = self._get_file_info(url)
GetFileInfo(r) == FileInfo(srv[r], served[r])

\* spec 3 and 4.6: the records of request r's (fund_symbol, document_type)
\* pair in the metadata
RecordsOf(st, r) == {x \in st : x.key = r}

\* spec 4.6: the ledger maps a pair to its latest record
LatestRecord(st, r) ==
    CHOOSE x \in RecordsOf(st, r) :
        \A y \in RecordsOf(st, r) : y.download_date <= x.download_date

\* spec 4.6: the record the ledger gives for each request, NoRecord without one
ledger ==
    [r \in Reqs |->
        IF RecordsOf(store, r) = {} THEN NoRecord
        ELSE [present |-> TRUE,
              file_size |-> LatestRecord(store, r).file_size,
              checksum |-> LatestRecord(store, r).checksum,
              download_date |-> LatestRecord(store, r).download_date]]

\* spec 3 and 4.6 save_download_record: the record of a new successful
\* transfer takes the place of the pair's earlier record
SaveDownloadRecord(st, rec) == {x \in st : x.key # rec.key} \cup {rec}

\* spec 4.6 is_already_satisfied: a record exists and the file still exists
\* with the recorded size
IsFileDownloaded(r) ==
    /\ ledger[r].present
    /\ local[r].exists
    /\ Len(local[r].data) = ledger[r].file_size

\* the empty string _calculate_checksum returns for a file it cannot read
NoChecksum == <<"">>

\* downloader.py:130-141  _calculate_checksum: hashlib.sha256 over the file's
\* content, a function of the content; every exception of open() or read()
\* is caught and the result is the empty string (readable FALSE)
CalculateChecksum(d, readable) == IF readable THEN <<"sha256", d>> ELSE NoChecksum

(***************************************************************************)
(* DownloadStats                                                           *)
(***************************************************************************)
\* downloader.py:26-33
NewStats ==
    [total_files |-> 0, downloaded_files |-> 0, skipped_files |-> 0,
     failed_files |-> 0, total_bytes |-> 0, errors |-> <<>>]

\* downloader.py:35-38
AddSuccess(st, file_size) ==
    [st EXCEPT !.downloaded_files = @ + 1, !.total_bytes = @ + file_size]

\* downloader.py:40-42
AddSkip(st) == [st EXCEPT !.skipped_files = @ + 1]

\* downloader.py:44-47
AddFailure(st, error) ==
    [st EXCEPT !.failed_files = @ + 1, !.errors = Append(@, error)]

\* the slice errors[-n:] of a Python list: its last min(len, n) elements
LastSlice(errs, n) ==
    SubSeq(errs, (IF Len(errs) < n THEN 0 ELSE Len(errs) - n) + 1, Len(errs))

\* no call of get_summary() yet
NoSummary == [called |-> FALSE, raised |-> FALSE, is_list |-> FALSE,
              errors |-> <<>>, of |-> <<>>]

\* downloader.py:49-68  get_summary(): the "errors" entry is self.errors[-10],
\* an index and not a slice: IndexError for fewer than 10 errors, otherwise
\* the single string that is tenth from the end ("errors" holds it, is_list
\* tells that the value is a string and not a list); of: the errors recorded
\* at the call
GetSummaryErrors(errs) ==
    IF Len(errs) < 10
    THEN [called |-> TRUE, raised |-> TRUE, is_list |-> FALSE,
          errors |-> <<>>, of |-> errs]
    ELSE [called |-> TRUE, raised |-> FALSE, is_list |-> FALSE,
          errors |-> <<errs[Len(errs) - 10 + 1]>>, of |-> errs]

\* the error strings of the failures that are recorded directly
ErrorStrings == {[req |-> 1, error |-> <<k, 0>>] : k \in {"connection", "stream"}}

\* stats.add_failure(error) on a DownloadStats
RecordFailure(e) ==
    /\ Len(stats.errors) < MaxErrors
    /\ stats' = AddFailure(stats, e)
    /\ UNCHANGED <<served, local, store, sem, pc, tx, run, phase, histVars>>
    /\ UNCHANGED <<rateVars, confVars, sessVars, cliVars>>

\* main.py:275  summary = stats.get_summary()
GetSummary ==
    /\ summary' = GetSummaryErrors(stats.errors)
    /\ UNCHANGED <<config, built>>
    /\ UNCHANGED <<rateVars, confVars, xferVars, sessVars, histVars>>

(***************************************************************************)
(* Config (config.py)                                                      *)
(***************************************************************************)
\* config.py:23-30, 45  the defaults
DefaultConfig ==
    [max_concurrent_downloads |-> 5, request_timeout |-> 30, max_retries |-> 3,
     log_level |-> "INFO"]

\* the calls Config(...) that are tried
ConfigInputs ==
    [max_concurrent_downloads : -MaxConf..MaxConf,
     request_timeout : -MaxConf..MaxConf,
     max_retries : -MaxConf..MaxConf,
     log_level : {"INFO", "info", "Warning", "INVALID"}]

\* str.upper() on the log levels that are tried
Upper(v) ==
    CASE v = "info" -> "INFO"
      [] v = "Warning" -> "WARNING"
      [] OTHER -> v

\* config.py:62-67  validate_log_level: the upper-cased value is tested
ValidLogLevel(v) == Upper(v) \in {"DEBUG", "INFO", "WARNING", "ERROR", "CRITICAL"}

\* config.py:10-69  Config(**kwargs): the only validators are those of
\* download_dir and log_level; the int fields take every integer
ConfigInit(c) == IF ValidLogLevel(c.log_level) THEN "ok" ELSE "ValueError"

\* config.py:68  the validator returns v.upper(): the object holds the
\* normalised level
ConfigFields(c) == [c EXCEPT !.log_level = Upper(@)]

\* the constructor runs
Construct ==
    /\ built = "pending"
    /\ built' = ConfigInit(config)
    /\ config' = IF ValidLogLevel(config.log_level) THEN ConfigFields(config)
                 ELSE config
    /\ UNCHANGED summary
    /\ UNCHANGED <<rateVars, confVars, xferVars, sessVars, histVars>>

(***************************************************************************)
(* ETFDownloader.download_file_sync / download_file_async                  *)
(***************************************************************************)
SizeCheckFailsOnMismatch(expected_size, downloaded_bytes) ==
    Truthy(expected_size) /\ downloaded_bytes # expected_size
\* downloader.py:207-211  "if expected_size and downloaded_bytes !=
\* expected_size: logger.warning(...)": whether the size check fails the
\* transfer.  It only logs, for every pair of sizes.
SizeCheckFails(expected_size, downloaded_bytes) == FALSE

\* range: the Range header that was sent (None: no header); pending: bytes of
\* a chunk that is written and not yet added to downloaded_bytes
NoTx == [existing_size |-> 0, downloaded_bytes |-> 0, expected_size |-> None,
         status_code |-> 0, body |-> <<>>, mode |-> "wb", range |-> None,
         pending |-> 0]

\* downloader.py:428  "use_async and self.stats.total_files > 10"
AsyncThreshold == 10

\* the batch runs on the event loop: download_funds_async called directly
\* (downloader.py:363), download_all_funds with use_async for more than
\* AsyncThreshold files (downloader.py:428-430), or a DownloadSession
AsyncPath ==
    \/ engine = "session"
    \/ entry = "download_funds_async"
    \/ use_async /\ nreq > AsyncThreshold

ProbeGet == [probe |-> TRUE, range |-> None]
DownloadGet(range) == [probe |-> FALSE, range |-> range]

AlreadyDownloadedEmptyToo(r) == IsFileDownloaded(r) /\ local[r].exists
\* downloader.py:155-156 / 260-261  the short-circuit on the ledger
AlreadyDownloaded(r) ==
    IsFileDownloaded(r) /\ local[r].exists /\ Len(local[r].data) > 0

ResumeSyncUnprobed(r, info) ==
    IF enable_resume /\ local[r].exists
    THEN [existing_size |-> Len(local[r].data), range |-> Len(local[r].data),
          skip |-> FALSE]
    ELSE [existing_size |-> 0, range |-> None, skip |-> FALSE]
\* downloader.py:164-181  download_file_sync: the resume decision
ResumeSync(r, info) ==
    IF enable_resume /\ local[r].exists /\ info.ranges /\ Truthy(info.size)
    THEN IF Len(local[r].data) < info.size
         THEN [existing_size |-> Len(local[r].data), range |-> Len(local[r].data),
               skip |-> FALSE]
         ELSE [existing_size |-> Len(local[r].data), range |-> None, skip |-> TRUE]
    ELSE [existing_size |-> 0, range |-> None, skip |-> FALSE]

\* downloader.py:266-273  download_file_async: the resume decision
ResumeAsync(r) ==
    IF enable_resume /\ local[r].exists
    THEN [existing_size |-> Len(local[r].data), range |-> Len(local[r].data),
          skip |-> FALSE]
    ELSE [existing_size |-> 0, range |-> None, skip |-> FALSE]

OpenModeAlwaysWrite(existing_size) == "wb"
\* downloader.py:197 / 283  mode = 'ab' if existing_size > 0 else 'wb'
OpenMode(existing_size) == IF existing_size > 0 THEN "ab" ELSE "wb"

\* open(local_path, mode): 'wb' truncates, 'ab' keeps the content
OpenFile(f, mode) == IF mode = "ab" /\ f.exists THEN f ELSE File(<<>>)

\* downloader.py:238-243 / 316-321  the except branch unlinks an empty file;
\* an exception of unlink() is swallowed and the empty file stays (unlink_ok
\* FALSE: the directory is read-only)
FailureCleanup(f, unlink_ok) ==
    IF f.exists /\ Len(f.data) = 0 /\ unlink_ok THEN NoFile ELSE f

ReleaseLeaks == sem
\* downloader.py:405-406  leaving "async with semaphore" releases the slot
Release == IF AsyncPath THEN sem + 1 ELSE sem

\* add_skip() and return True (downloader.py:158-159, 180-181, 263-264)
Skipped(r, ngets) ==
    /\ stats' = AddSkip(stats)
    /\ pc' = [pc EXCEPT ![r] = "done"]
    /\ outcome' = [outcome EXCEPT ![r] = "skipped"]
    /\ sem' = Release
    /\ served' = [served EXCEPT ![r] = @ + ngets]
    /\ getlog' = [getlog EXCEPT ![r] = @ \o [i \in 1..ngets |-> ProbeGet]]
    /\ UNCHANGED <<local, store, tx, saves, phase, faults>>

\* the except branch (downloader.py:233-245 / 311-323): add_failure, unlink
\* an empty file, return False
Failed(r, f, error, unlink_ok) ==
    /\ stats' = AddFailure(stats, [req |-> r, error |-> error])
    /\ local' = [local EXCEPT ![r] = FailureCleanup(f, unlink_ok)]
    /\ pc' = [pc EXCEPT ![r] = "done"]
    /\ outcome' = [outcome EXCEPT ![r] = "failed"]
    /\ sem' = Release
    /\ UNCHANGED <<store, saves, phase>>

\* the except branch when local_path.exists() raises in it (downloader.py:239 /
\* 317: PermissionError, the directory is not searchable): add_failure has
\* run and the exception leaves download_file_*.  On the sequential path it
\* leaves download_fund_documents and download_all_funds as well; on the
\* event loop "async with semaphore" releases the slot and the exception is
\* the task's result.
Escaped(r, error) ==
    /\ stats' = AddFailure(stats, [req |-> r, error |-> error])
    /\ pc' = [pc EXCEPT ![r] = "raised"]
    /\ outcome' = [outcome EXCEPT ![r] = "escaped"]
    /\ sem' = Release
    /\ phase' = IF AsyncPath THEN phase ELSE "raised"
    /\ UNCHANGED <<local, store, saves>>

\* how the except branch ends: the empty file unlinked, the file kept (not
\* empty, or unlink() failed), or exists() raised
ExceptEnds == {"unlinked", "kept", "raised"}

\* what the environment did to raise the exception e; an error status is the
\* server's answer and no fault of the environment
FaultOf(e) ==
    CASE e[1] = "connection" -> {"connection"}
      [] e[1] = "permission" -> {"open"}
      [] e[1] = "stream" -> {"stream"}
      [] OTHER -> {}

\* downloader.py:233-245 / 311-323  the except branch
Except(r, f, error, end) ==
    /\ IF end = "raised" THEN Escaped(r, error)
       ELSE Failed(r, f, error, end = "unlinked")
    /\ faults' = [faults EXCEPT ![r] =
                    @ \cup FaultOf(error)
                      \cup (IF end = "raised" THEN {"exists"} ELSE {})]

\* downloader.py:153-200  download_file_sync from its entry to the opened
\* local file; nothing else runs in between on the sequential path.  neterr:
\* the download GET raises a connection error or a timeout instead of
\* returning a response.
Begin(r, neterr) ==
    /\ ~AsyncPath
    /\ pc[r] = "running"
    /\ IF AlreadyDownloaded(r) THEN ~neterr /\ Skipped(r, 0)
       ELSE LET info == GetFileInfo(r)
                dec  == ResumeSync(r, info)
                k    == served[r] + info.gets + 1
                resp == GetResponse(srv[r], k, dec.range)
                log  == [i \in 1..info.gets |-> ProbeGet] \o <<DownloadGet(dec.range)>>
            IN  IF dec.skip THEN ~neterr /\ Skipped(r, info.gets)
                ELSE /\ getlog' = [getlog EXCEPT ![r] = @ \o log]
                     /\ IF neterr
                        THEN /\ served' = [served EXCEPT ![r] = @ + info.gets]
                             /\ \E end \in ExceptEnds :
                                   Except(r, local[r], <<"connection", 0>>, end)
                             /\ UNCHANGED tx
                        ELSE /\ served' = [served EXCEPT ![r] = k]
                             /\ IF IsError(resp.code)
                                THEN /\ \E end \in ExceptEnds :
                                           Except(r, local[r], <<"http", resp.code>>, end)
                                     /\ UNCHANGED tx
                                ELSE /\ tx' = [tx EXCEPT ![r] =
                                           [NoTx EXCEPT
                                              !.existing_size = dec.existing_size,
                                              !.downloaded_bytes = dec.existing_size,
                                              !.expected_size = info.size,
                                              !.status_code = resp.code,
                                              !.body = resp.body,
                                              !.range = dec.range,
                                              !.mode = OpenMode(dec.existing_size)]]
                                     /\ local' = [local EXCEPT ![r] =
                                           OpenFile(@, OpenMode(dec.existing_size))]
                                     /\ pc' = [pc EXCEPT ![r] = "streaming"]
                                     /\ UNCHANGED <<stats, store, sem, outcome,
                                                    saves, phase, faults>>
    /\ UNCHANGED <<run, atStart, prev, batches>>
    /\ UNCHANGED <<rateVars, confVars, sessVars, cliVars>>

\* downloader.py:184-200: as Begin up to a successful response, then
\* local_path.parent.mkdir(...) or open(local_path, mode) raises
\* PermissionError (a read-only file, or a missing file or directory in a
\* read-only directory); the file is not touched and the except branch runs
BeginDenied(r) ==
    /\ ~AsyncPath
    /\ pc[r] = "running"
    /\ ~AlreadyDownloaded(r)
    /\ LET info == GetFileInfo(r)
           dec  == ResumeSync(r, info)
           k    == served[r] + info.gets + 1
           resp == GetResponse(srv[r], k, dec.range)
           log  == [i \in 1..info.gets |-> ProbeGet] \o <<DownloadGet(dec.range)>>
       IN  /\ ~dec.skip
           /\ ~IsError(resp.code)
           /\ getlog' = [getlog EXCEPT ![r] = @ \o log]
           /\ served' = [served EXCEPT ![r] = k]
           /\ \E end \in ExceptEnds : Except(r, local[r], <<"permission", 0>>, end)
    /\ UNCHANGED <<tx, run, atStart, prev, batches>>
    /\ UNCHANGED <<rateVars, confVars, sessVars, cliVars>>

\* downloader.py:155-156 / 260-261 "is_file_downloaded(...) and
\* local_path.exists()" and 167 / 270 "self.config.enable_resume and
\* local_path.exists()": the directory of local_path is not searchable and
\* exists() raises PermissionError before any download GET; the except branch
\* counts the failure and its own exists() raises again.  With a record the
\* exception comes from the ledger check, before the probe; without one
\* (resume enabled) after the probe of the sequential path.
BeginUnsearchable(r) ==
    /\ engine = "funds"
    /\ pc[r] = "running"
    /\ IsFileDownloaded(r) \/ enable_resume
    /\ LET ngets == IF AsyncPath \/ IsFileDownloaded(r) THEN 0
                    ELSE GetFileInfo(r).gets
       IN  /\ served' = [served EXCEPT ![r] = @ + ngets]
           /\ getlog' = [getlog EXCEPT ![r] = @ \o [i \in 1..ngets |-> ProbeGet]]
    /\ Escaped(r, <<"permission", 0>>)
    /\ faults' = [faults EXCEPT ![r] = @ \cup {"exists"}]
    /\ UNCHANGED <<tx, run, atStart, prev, batches>>
    /\ UNCHANGED <<rateVars, confVars, sessVars, cliVars>>

\* downloader.py:258-276  download_file_async from its entry to the await of
\* session.get(url, headers): the ledger check, the resume decision, the GET
\* is sent
BeginAsync(r) ==
    /\ AsyncPath
    /\ engine = "funds"
    /\ pc[r] = "running"
    /\ IF AlreadyDownloaded(r) THEN Skipped(r, 0)
       ELSE /\ getlog' = [getlog EXCEPT ![r] =
                            Append(@, DownloadGet(ResumeAsync(r).range))]
            /\ tx' = [tx EXCEPT ![r] =
                        [NoTx EXCEPT
                           !.existing_size = ResumeAsync(r).existing_size,
                           !.range = ResumeAsync(r).range]]
            /\ pc' = [pc EXCEPT ![r] = "requesting"]
            /\ UNCHANGED <<served, local, store, stats, sem, outcome, saves, phase,
                           faults>>
    /\ UNCHANGED <<run, atStart, prev, batches>>
    /\ UNCHANGED <<rateVars, confVars, sessVars, cliVars>>

\* downloader.py:276-284  the task is resumed with the response (or with a
\* connection error: neterr); raise_for_status, mkdir, mode and
\* downloaded_bytes; then the await of aiofiles.open
Respond(r, neterr) ==
    /\ pc[r] = "requesting"
    /\ IF neterr
       THEN /\ \E end \in ExceptEnds : Except(r, local[r], <<"connection", 0>>, end)
            /\ UNCHANGED <<served, tx>>
       ELSE LET resp == GetResponse(srv[r], served[r] + 1, tx[r].range)
            IN  /\ served' = [served EXCEPT ![r] = @ + 1]
                /\ IF IsError(resp.code)
                   THEN /\ \E end \in ExceptEnds :
                              Except(r, local[r], <<"http", resp.code>>, end)
                        /\ UNCHANGED tx
                   ELSE /\ tx' = [tx EXCEPT
                                    ![r].status_code = resp.code,
                                    ![r].body = resp.body,
                                    ![r].mode = OpenMode(tx[r].existing_size),
                                    ![r].downloaded_bytes = tx[r].existing_size]
                        /\ pc' = [pc EXCEPT ![r] = "opening"]
                        /\ UNCHANGED <<local, store, stats, sem, outcome, saves,
                                       phase, faults>>
    /\ UNCHANGED <<getlog, run, atStart, prev, batches>>
    /\ UNCHANGED <<rateVars, confVars, sessVars, cliVars>>

\* downloader.py:286  aiofiles.open(local_path, mode) has opened the file
OpenAsync(r) ==
    /\ pc[r] = "opening"
    /\ local' = [local EXCEPT ![r] = OpenFile(@, tx[r].mode)]
    /\ pc' = [pc EXCEPT ![r] = "streaming"]
    /\ UNCHANGED <<served, store, stats, sem, tx, run, phase, histVars>>
    /\ UNCHANGED <<rateVars, confVars, sessVars, cliVars>>

\* downloader.py:280-286  local_path.parent.mkdir raises, or aiofiles.open
\* raises PermissionError; the file is not touched and the except branch runs
OpenDenied(r) ==
    /\ pc[r] = "opening"
    /\ \E end \in ExceptEnds : Except(r, local[r], <<"permission", 0>>, end)
    /\ UNCHANGED <<served, tx, run, getlog, atStart, prev, batches>>
    /\ UNCHANGED <<rateVars, confVars, sessVars, cliVars>>

\* iter_content(chunk_size) / iter_chunked(chunk_size): the next chunk of a body
NextChunk(body) ==
    SubSeq(body, 1, IF Len(body) < chunk_size THEN Len(body) ELSE chunk_size)
RestAfterChunk(body) == SubSeq(body, Len(NextChunk(body)) + 1, Len(body))

\* downloader.py:201-204  download_file_sync writes and counts one chunk
Chunk(r) ==
    /\ ~AsyncPath
    /\ pc[r] = "streaming"
    /\ tx[r].body # <<>>
    /\ local' = [local EXCEPT ![r] = File(@.data \o NextChunk(tx[r].body))]
    /\ tx' = [tx EXCEPT ![r].body = RestAfterChunk(@),
                        ![r].downloaded_bytes = @ + Len(NextChunk(tx[r].body))]
    /\ UNCHANGED <<served, store, stats, sem, pc, run, phase, histVars>>
    /\ UNCHANGED <<rateVars, confVars, sessVars, cliVars>>

\* downloader.py:287-288  download_file_async: "await f.write(chunk)" has
\* written the chunk; the task is suspended before it counts the bytes
WriteChunk(r) ==
    /\ AsyncPath
    /\ pc[r] = "streaming"
    /\ tx[r].body # <<>>
    /\ local' = [local EXCEPT ![r] = File(@.data \o NextChunk(tx[r].body))]
    /\ tx' = [tx EXCEPT ![r].body = RestAfterChunk(@),
                        ![r].pending = Len(NextChunk(tx[r].body))]
    /\ pc' = [pc EXCEPT ![r] = "written"]
    /\ UNCHANGED <<served, store, stats, sem, run, phase, histVars>>
    /\ UNCHANGED <<rateVars, confVars, sessVars, cliVars>>

\* downloader.py:289  downloaded_bytes += len(chunk), then the next chunk is
\* awaited
CountChunk(r) ==
    /\ pc[r] = "written"
    /\ tx' = [tx EXCEPT ![r].downloaded_bytes = @ + tx[r].pending,
                        ![r].pending = 0]
    /\ pc' = [pc EXCEPT ![r] = "streaming"]
    /\ UNCHANGED <<served, local, store, stats, sem, run, phase, histVars>>
    /\ UNCHANGED <<rateVars, confVars, sessVars, cliVars>>

\* downloader.py:201 / 287  iter_content / iter_chunked raises at a read: the
\* first one, one between two chunks, or the one after the last byte was
\* delivered and written
StreamError(r) ==
    /\ pc[r] = "streaming"
    /\ \E end \in ExceptEnds : Except(r, local[r], <<"stream", 0>>, end)
    /\ UNCHANGED <<served, tx, run, getlog, atStart, prev, batches>>
    /\ UNCHANGED <<rateVars, confVars, sessVars, cliVars>>

\* downloader.py:216-226 / 294-304  the DownloadRecord of a completed transfer
\* of request r: file_size is downloaded_bytes, download_date the time of
\* the run, checksum what _calculate_checksum returned
DownloadRecord(r, readable) ==
    [key |-> r, file_size |-> tx[r].downloaded_bytes,
     checksum |-> CalculateChecksum(local[r].data, readable),
     download_date |-> run]

CompleteKeepsOldRecord(r, readable) ==
    /\ pc[r] = "streaming"
    /\ tx[r].body = <<>>
    /\ store' = IF RecordsOf(store, r) # {} THEN store
                ELSE SaveDownloadRecord(store, DownloadRecord(r, readable))
    /\ saves' = [saves EXCEPT ![r] = @ + 1]
    /\ stats' = AddSuccess(stats, tx[r].downloaded_bytes - tx[r].existing_size)
    /\ pc' = [pc EXCEPT ![r] = "done"]
    /\ outcome' = [outcome EXCEPT ![r] = "downloaded"]
    /\ sem' = Release
    /\ faults' = [faults EXCEPT ![r] = IF readable THEN @ ELSE @ \cup {"reread"}]
    /\ UNCHANGED <<served, local, tx, run, phase, getlog, atStart, prev, batches>>
    /\ UNCHANGED <<rateVars, confVars, sessVars, cliVars>>
\* downloader.py:206-231 / 291-309  end of the stream: the size check, the
\* checksum (readable FALSE: the file cannot be read again and the checksum is
\* the empty string), the record, add_success
Complete(r, readable) ==
    /\ pc[r] = "streaming"
    /\ tx[r].body = <<>>
    /\ IF SizeCheckFails(tx[r].expected_size, tx[r].downloaded_bytes)
       THEN /\ \E end \in ExceptEnds : Except(r, local[r], <<"size", 0>>, end)
            /\ UNCHANGED <<served, tx, run, getlog, atStart, prev, batches>>
       ELSE /\ store' = SaveDownloadRecord(store, DownloadRecord(r, readable))
            /\ saves' = [saves EXCEPT ![r] = @ + 1]
            /\ stats' = AddSuccess(stats, tx[r].downloaded_bytes - tx[r].existing_size)
            /\ pc' = [pc EXCEPT ![r] = "done"]
            /\ outcome' = [outcome EXCEPT ![r] = "downloaded"]
            /\ sem' = Release
            /\ faults' = [faults EXCEPT ![r] =
                            IF readable THEN @ ELSE @ \cup {"reread"}]
            /\ UNCHANGED <<served, local, tx, run, phase, getlog, atStart, prev,
                           batches>>
    /\ UNCHANGED <<rateVars, confVars, sessVars, cliVars>>

(***************************************************************************)
(* download_all_funds / download_funds_async / download_fund_documents     *)
(***************************************************************************)
\* downloader.py:421-435, 363-402: a batch starts.  fresh: the batch runs on
\* a newly constructed ETFDownloader (downloader.py:74-77), as the CLI's
\* download command does (main.py:271-272); otherwise on the same instance.
\* After an exception has left download_all_funds the method can be called
\* again, on the same instance (the counters and errors of the interrupted
\* batch are kept) or on a new one.
StartBatch(fresh) ==
    /\ engine = "funds"
    /\ phase \in {"idle", "returned", "raised"}
    /\ phase = "idle" => fresh
    /\ phase # "idle" => run < MaxRuns
    /\ run' = IF phase = "idle" THEN run ELSE run + 1
    /\ phase' = "running"
    /\ stats' = [(IF fresh THEN NewStats ELSE stats) EXCEPT !.total_files = nreq]
    /\ sem' = max_concurrent
    /\ pc' = [r \in Reqs |-> IF r \in Batch THEN "queued" ELSE "idle"]
    /\ tx' = [r \in Reqs |-> NoTx]
    /\ prev' = [r \in Reqs |-> [outcome |-> outcome[r], getlog |-> getlog[r]]]
    /\ outcome' = [r \in Reqs |-> "none"]
    /\ getlog' = [r \in Reqs |-> <<>>]
    /\ saves' = [r \in Reqs |-> 0]
    /\ atStart' = [r \in Reqs |-> [file |-> local[r], record |-> ledger[r],
                                    served |-> served[r]]]
    /\ batches' = IF fresh THEN 1 ELSE batches + 1
    /\ faults' = [r \in Reqs |-> {}]
    /\ UNCHANGED <<served, local, store>>
    /\ UNCHANGED <<rateVars, confVars, sessVars, cliVars>>

SemAvailableOffByOne(s) == s >= 0
\* asyncio.Semaphore.acquire proceeds while the value is positive
SemAvailable(s) == s > 0

\* downloader.py:404-406  download_with_semaphore enters "async with semaphore"
AdmitAsync(r) ==
    /\ engine = "funds" /\ phase = "running" /\ AsyncPath
    /\ pc[r] = "queued"
    /\ SemAvailable(sem)
    /\ sem' = sem - 1
    /\ pc' = [pc EXCEPT ![r] = "running"]
    /\ UNCHANGED <<served, local, store, stats, tx, run, phase, histVars>>
    /\ UNCHANGED <<rateVars, confVars, sessVars, cliVars>>

\* downloader.py:337-349, 432-433  the sequential loop calls download_file_sync
\* for the next url
AdmitSync(r) ==
    /\ engine = "funds" /\ phase = "running" /\ ~AsyncPath
    /\ pc[r] = "queued"
    /\ \A q \in Batch : q < r => pc[q] = "done"
    /\ pc' = [pc EXCEPT ![r] = "running"]
    /\ UNCHANGED <<served, local, store, stats, sem, tx, run, phase, histVars>>
    /\ UNCHANGED <<rateVars, confVars, sessVars, cliVars>>

\* downloader.py:415-417  "for result in results: if isinstance(result,
\* Exception): self.stats.add_failure(str(result))" over the tasks 1..n: a
\* task's result is an exception when the except branch of download_file_async
\* raised
RECURSIVE GatherFailures(_, _)
GatherFailures(st, n) ==
    IF n = 0 THEN st
    ELSE IF pc[n] = "raised"
         THEN AddFailure(GatherFailures(st, n - 1),
                         [req |-> n, error |-> <<"permission", 0>>])
         ELSE GatherFailures(st, n - 1)

ReturnBatchEarly ==
    /\ engine = "funds"
    /\ phase = "running"
    /\ \E r \in Batch : pc[r] \in {"done", "raised"}
    /\ phase' = "returned"
    /\ stats' = IF AsyncPath THEN GatherFailures(stats, nreq) ELSE stats
    /\ UNCHANGED <<served, local, store, sem, pc, tx, run, histVars>>
    /\ UNCHANGED <<rateVars, confVars, sessVars, cliVars>>
\* downloader.py:409-419, 432-435  gather has collected every task and the
\* exceptions among the results are counted as failures, or the sequential
\* loop has ended; the batch returns
ReturnBatch ==
    /\ engine = "funds"
    /\ phase = "running"
    /\ \A r \in Batch : pc[r] \in {"done", "raised"}
    /\ phase' = "returned"
    /\ stats' = IF AsyncPath THEN GatherFailures(stats, nreq) ELSE stats
    /\ UNCHANGED <<served, local, store, sem, pc, tx, run, histVars>>
    /\ UNCHANGED <<rateVars, confVars, sessVars, cliVars>>

(***************************************************************************)
(* The download directory between two runs                                 *)
(***************************************************************************)
\* what an external process can leave of a file: nothing, a shorter file, or
\* a longer one
TamperedFiles(f) ==
    {NoFile}
    \cup {File(SubSeq(f.data, 1, k)) : k \in 0..(Len(f.data) - 1)}
    \cup (IF Len(f.data) < MaxLen THEN {File(Append(f.data, "a"))} ELSE {})

\* between two runs the recorded file of request r is deleted, truncated or
\* extended from outside; the ledger is not told
Tamper(r, f) ==
    /\ engine = "funds"
    /\ phase = "returned" /\ run < MaxRuns
    /\ ledger[r].present /\ local[r].exists
    /\ f \in TamperedFiles(local[r])
    /\ local' = [local EXCEPT ![r] = f]
    /\ UNCHANGED <<served, store, stats, sem, pc, tx, run, phase, histVars>>
    /\ UNCHANGED <<rateVars, confVars, sessVars, cliVars>>

(***************************************************************************)
(* DownloadSession.download_all (core.py)                                  *)
(***************************************************************************)
\* core.py:247-265  download_all creates the semaphore and one task per symbol
StartSession ==
    /\ engine = "session"
    /\ phase \in {"idle", "returned"}
    /\ phase = "returned" => run < MaxRuns
    /\ run' = IF phase = "idle" THEN run ELSE run + 1
    /\ phase' = "running"
    /\ sem' = max_concurrent
    /\ pc' = [r \in Reqs |-> IF r \in Batch THEN "queued" ELSE "idle"]
    /\ UNCHANGED <<served, local, store, stats, tx, sessVars, histVars>>
    /\ UNCHANGED <<rateVars, confVars, cliVars>>

\* core.py:250  download_single enters "async with semaphore"
AdmitSession(r) ==
    /\ engine = "session" /\ phase = "running"
    /\ pc[r] = "queued"
    /\ SemAvailable(sem)
    /\ sem' = sem - 1
    /\ pc' = [pc EXCEPT ![r] = "fetching"]
    /\ UNCHANGED <<served, local, store, stats, tx, run, phase, sessVars, histVars>>
    /\ UNCHANGED <<rateVars, confVars, cliVars>>

\* core.py:251-259  adapter.fetch_etf_data returns data or raises; either way
\* the result is stored and the slot is released
FetchEnd(r, ok) ==
    /\ pc[r] = "fetching"
    /\ results' = [results EXCEPT ![r] = IF ok THEN "data" ELSE "None"]
    /\ errors' = [errors EXCEPT ![r] = IF ok THEN @ ELSE "error"]
    /\ sem' = sem + 1
    /\ pc' = [pc EXCEPT ![r] = "done"]
    /\ UNCHANGED <<served, local, store, stats, tx, run, phase, histVars>>
    /\ UNCHANGED <<rateVars, confVars, cliVars>>

\* core.py:265-267  gather has collected every task, download_all returns
ReturnSession ==
    /\ engine = "session"
    /\ phase = "running"
    /\ \A r \in Batch : pc[r] = "done"
    /\ phase' = "returned"
    /\ UNCHANGED <<served, local, store, stats, sem, pc, tx, run, sessVars, histVars>>
    /\ UNCHANGED <<rateVars, confVars, cliVars>>

\* state of the transfer engine before the first batch
\* no summary taken, the default Config
CliIdle ==
    /\ summary = NoSummary
    /\ config = DefaultConfig
    /\ built = "ok"

EngineStart(first) ==
    /\ served = [r \in Reqs |-> 0]
    /\ stats = NewStats
    /\ sem = max_concurrent
    /\ pc = [r \in Reqs |-> "idle"]
    /\ tx = [r \in Reqs |-> NoTx]
    /\ run = first
    /\ phase = "idle"
    /\ outcome = [r \in Reqs |-> "none"]
    /\ getlog = [r \in Reqs |-> <<>>]
    /\ saves = [r \in Reqs |-> 0]
    /\ atStart = [r \in Reqs |-> [file |-> local[r], record |-> ledger[r],
                                   served |-> served[r]]]
    /\ faults = [r \in Reqs |-> {}]
    /\ prev = [r \in Reqs |-> [outcome |-> "none", getlog |-> <<>>]]
    /\ batches = 0
    /\ results = [r \in Reqs |-> "unset"]
    /\ errors = [r \in Reqs |-> "unset"]

\* an empty ledger
EngineInitAt(first) ==
    /\ store = {}
    /\ EngineStart(first)

\* the first of up to MaxRuns batches is about to start
EngineInit == EngineInitAt(1)

XferInit == CliIdle /\ EngineInit

\* the files a run can find at local_path: none, or an earlier run's leftover
\* with up to n bytes: a prefix of the document, or other bytes
LocalFiles(n) ==
    {NoFile} \cup {File(Target(k)) : k \in 0..n}
             \cup {File([i \in 1..k |-> "b"]) : k \in 1..n}

DefaultServer ==
    [content |-> <<>>, status |-> "ok", head |-> "ok", cl_header |-> "exact",
     accept_ranges |-> FALSE, honors |-> FALSE]

\* download_file_async never probes, so the probe's answers are immaterial
\* with use_async; download_all_funds(use_async=True) of a single file takes
\* the sequential path (downloader.py:428) and is explored for this probe,
\* use_async=False for every probe
ProbeFixed(s) == s.head = "ok" /\ s.cl_header = "exact" /\ ~s.accept_ranges

\* one request, every server behaviour and every leftover file
InitFile ==
    /\ engine = "funds"
    /\ chunk_size = 1
    /\ nreq = 1
    /\ entry \in {"download_all_funds", "download_funds_async"}
    /\ use_async \in BOOLEAN
    /\ entry = "download_funds_async" => use_async
    /\ enable_resume \in BOOLEAN
    /\ max_concurrent = 1
    /\ \E s \in Servers(MaxLen) :
          /\ use_async => ProbeFixed(s)
          /\ s.head = "error" => ProbeFixed([s EXCEPT !.head = "ok"])
          /\ srv = [r \in Reqs |-> IF r = 1 THEN s ELSE DefaultServer]
    /\ \E f \in LocalFiles(MaxLen) :
          local = [r \in Reqs |-> IF r = 1 THEN f ELSE NoFile]
    /\ XferInit

\* the requests of a batch: a document or a missing document; at local_path
\* nothing, a partial file without a record, or the document as an earlier
\* run downloaded and recorded it
BatchServers ==
    {[DefaultServer EXCEPT !.content = Target(2), !.accept_ranges = TRUE,
                           !.honors = TRUE, !.status = st] :
        st \in {"ok", "notfound"}}
BatchFiles == {NoFile, File(Target(1)), File(Target(2))}
RecordOf(r, f) ==
    IF f = File(Target(2))
    THEN {[key |-> r, file_size |-> Len(f.data),
           checksum |-> CalculateChecksum(f.data, TRUE), download_date |-> 0]}
    ELSE {}

\* a batch of up to NumReqs requests: the funds on either path with a chunk
\* that holds a whole document, or the symbols of a DownloadSession; the
\* batch is the last one the bound on the runs allows
BatchConf ==
    /\ engine \in {"funds", "session"}
    /\ nreq \in 0..NumReqs
    /\ entry \in {"download_all_funds", "download_funds_async"}
    /\ use_async \in BOOLEAN
    /\ entry = "download_funds_async" => use_async
    /\ engine = "session" => entry = "download_funds_async"
    /\ enable_resume = TRUE
    /\ chunk_size = 2
    /\ max_concurrent \in 1..MaxConc
    /\ ~AsyncPath => max_concurrent = 1
    /\ \E ss \in [Reqs -> BatchServers] :
          srv = [r \in Reqs |-> IF r \in Batch /\ engine = "funds"
                                 THEN ss[r] ELSE DefaultServer]
    /\ \E fs \in [Reqs -> BatchFiles] :
          local = [r \in Reqs |-> IF r \in Batch /\ engine = "funds"
                                   THEN fs[r] ELSE NoFile]

InitBatch ==
    /\ BatchConf
    /\ store = UNION {RecordOf(r, local[r]) : r \in Reqs}
    /\ CliIdle /\ EngineStart(MaxRuns)

\* rate limiter, unused by the transfer specifications
RateIdle ==
    /\ calls_per_minute = 1
    /\ calls_made = 0
    /\ window_start = 0
    /\ lock = NoCaller
    /\ clock = 0
    /\ cpc = [c \in Callers |-> "idle"]
    /\ wakeAt = [c \in Callers |-> 0]
    /\ returns = <<>>

\* transfer engine, unused by the rate limiter's specification
ConfIdle ==
    /\ engine = "funds"
    /\ chunk_size = 1
    /\ nreq = 0
    /\ entry = "download_all_funds"
    /\ use_async = FALSE
    /\ enable_resume = TRUE
    /\ max_concurrent = 1
    /\ srv = [r \in Reqs |-> DefaultServer]
    /\ local = [r \in Reqs |-> NoFile]
XferIdle == ConfIdle /\ XferInit

vars == <<rateVars, confVars, xferVars, sessVars, histVars, cliVars>>

InitRate == RateLimiterInit /\ XferIdle
NextRate ==
    \/ \E c \in Callers : Call(c)
    \/ \E c \in Callers : Enter(c)
    \/ \E c \in Callers : Wake(c)
    \/ Tick
SpecRate == InitRate /\ [][NextRate]_vars

\* the rate limiter under a clock that keeps advancing and an event loop that
\* runs every coroutine that is ready: the lock is handed to a waiting caller
\* when it is free (asyncio.Lock), a sleeper is resumed when its time has come
InitRateLive == RateLimiterInit /\ XferIdle
NextRateLive ==
    \/ \E c \in Callers : Call(c)
    \/ \E c \in Callers : Enter(c)
    \/ \E c \in Callers : Wake(c)
    \/ Tick
    \/ TickOver
FairRate ==
    /\ WF_vars(Tick)
    /\ WF_vars(TickOver)
    /\ \A c \in Callers : WF_vars(Enter(c)) /\ WF_vars(Wake(c))
SpecRateLive == InitRateLive /\ [][NextRateLive]_vars /\ FairRate

NextFile ==
    \/ \E fresh \in BOOLEAN : StartBatch(fresh)
    \/ \E r \in Batch : AdmitAsync(r)
    \/ \E r \in Batch : AdmitSync(r)
    \/ \E r \in Batch, neterr \in BOOLEAN : Begin(r, neterr)
    \/ \E r \in Batch : BeginDenied(r)
    \/ \E r \in Batch : BeginUnsearchable(r)
    \/ \E r \in Batch : BeginAsync(r)
    \/ \E r \in Batch, neterr \in BOOLEAN : Respond(r, neterr)
    \/ \E r \in Batch : OpenAsync(r)
    \/ \E r \in Batch : OpenDenied(r)
    \/ \E r \in Batch : Chunk(r)
    \/ \E r \in Batch : WriteChunk(r)
    \/ \E r \in Batch : CountChunk(r)
    \/ \E r \in Batch : StreamError(r)
    \/ \E r \in Batch, readable \in BOOLEAN : Complete(r, readable)
    \/ ReturnBatch
\* the runs between which files are changed from outside, and the runs of
\* NextBatch, are invocations of the command line, each of which constructs
\* a new ETFDownloader (main.py:271)
NextTamper ==
    \/ StartBatch(TRUE)
    \/ \E r \in Batch : AdmitAsync(r)
    \/ \E r \in Batch : AdmitSync(r)
    \/ \E r \in Batch, neterr \in BOOLEAN : Begin(r, neterr)
    \/ \E r \in Batch : BeginDenied(r)
    \/ \E r \in Batch : BeginUnsearchable(r)
    \/ \E r \in Batch : BeginAsync(r)
    \/ \E r \in Batch, neterr \in BOOLEAN : Respond(r, neterr)
    \/ \E r \in Batch : OpenAsync(r)
    \/ \E r \in Batch : OpenDenied(r)
    \/ \E r \in Batch : Chunk(r)
    \/ \E r \in Batch : WriteChunk(r)
    \/ \E r \in Batch : CountChunk(r)
    \/ \E r \in Batch : StreamError(r)
    \/ \E r \in Batch, readable \in BOOLEAN : Complete(r, readable)
    \/ ReturnBatch
    \/ \E r \in Batch : \E f \in TamperedFiles(local[r]) : Tamper(r, f)
NextBatch ==
    \/ StartBatch(TRUE)
    \/ \E r \in Batch : AdmitAsync(r)
    \/ \E r \in Batch : AdmitSync(r)
    \/ \E r \in Batch, neterr \in BOOLEAN : Begin(r, neterr)
    \/ \E r \in Batch : BeginDenied(r)
    \/ \E r \in Batch : BeginUnsearchable(r)
    \/ \E r \in Batch : BeginAsync(r)
    \/ \E r \in Batch, neterr \in BOOLEAN : Respond(r, neterr)
    \/ \E r \in Batch : OpenAsync(r)
    \/ \E r \in Batch : OpenDenied(r)
    \/ \E r \in Batch : Chunk(r)
    \/ \E r \in Batch : WriteChunk(r)
    \/ \E r \in Batch : CountChunk(r)
    \/ \E r \in Batch : StreamError(r)
    \/ \E r \in Batch, readable \in BOOLEAN : Complete(r, readable)
    \/ ReturnBatch
    \/ StartSession
    \/ \E r \in Batch : AdmitSession(r)
    \/ \E r \in Batch, ok \in BOOLEAN : FetchEnd(r, ok)
    \/ ReturnSession
InitOneFile == InitFile /\ RateIdle
SpecFile == InitOneFile /\ [][NextFile]_vars
\* a DownloadStats that records failures and is asked for its summary
InitStats == XferIdle /\ RateIdle
NextStats ==
    \/ \E e \in ErrorStrings : RecordFailure(e)
    \/ GetSummary
SpecStats == InitStats /\ [][NextStats]_vars

\* calls of Config(...) with small integers and a valid or invalid log level
InitConfig ==
    /\ RateIdle /\ ConfIdle /\ EngineInit
    /\ summary = NoSummary
    /\ config \in ConfigInputs
    /\ built = "pending"
NextConfig == Construct
SpecConfig == InitConfig /\ [][NextConfig]_vars

\* one request, with a download directory that changes between the runs
InitTampered == InitFile /\ RateIdle
SpecTamper == InitTampered /\ [][NextTamper]_vars
InitManyFiles == InitBatch /\ RateIdle
SpecBatch == InitManyFiles /\ [][NextBatch]_vars

\* the concurrent batches under the scheduling of the event loop: a task that
\* can take a free slot does so (asyncio.Semaphore wakes its waiters), a
\* transfer that was started goes on to its end (every transfer terminates: by
\* its last chunk, an error status, or an exception), and gather returns once
\* every task has finished.  Starting a further batch is up to the caller:
\* one batch into an empty download directory is followed to its return.
InitBatchLive ==
    /\ BatchConf /\ AsyncPath
    /\ \A r \in Reqs : local[r] = NoFile
    /\ CliIdle /\ EngineInitAt(MaxRuns)
    /\ RateIdle
NextBatchLive ==
    \/ StartBatch(TRUE)
    \/ \E r \in Batch : AdmitAsync(r)
    \/ \E r \in Batch : BeginUnsearchable(r)
    \/ \E r \in Batch : BeginAsync(r)
    \/ \E r \in Batch, neterr \in BOOLEAN : Respond(r, neterr)
    \/ \E r \in Batch : OpenAsync(r)
    \/ \E r \in Batch : OpenDenied(r)
    \/ \E r \in Batch : WriteChunk(r)
    \/ \E r \in Batch : CountChunk(r)
    \/ \E r \in Batch : StreamError(r)
    \/ \E r \in Batch, readable \in BOOLEAN : Complete(r, readable)
    \/ ReturnBatch
    \/ StartSession
    \/ \E r \in Batch : AdmitSession(r)
    \/ \E r \in Batch, ok \in BOOLEAN : FetchEnd(r, ok)
    \/ ReturnSession
FairBatch ==
    /\ \A r \in Reqs :
          /\ WF_vars(AdmitAsync(r))
          /\ WF_vars(BeginAsync(r))
          /\ WF_vars(\E neterr \in BOOLEAN : Respond(r, neterr))
          /\ WF_vars(OpenAsync(r))
          /\ WF_vars(WriteChunk(r))
          /\ WF_vars(CountChunk(r))
          /\ WF_vars(\E readable \in BOOLEAN : Complete(r, readable))
          /\ WF_vars(AdmitSession(r))
          /\ WF_vars(\E ok \in BOOLEAN : FetchEnd(r, ok))
    /\ WF_vars(ReturnBatch)
    /\ WF_vars(ReturnSession)
SpecBatchLive == InitBatchLive /\ [][NextBatchLive]_vars /\ FairBatch

\* number of returns of acquire() in the rolling minute [t, t + Minute)
ReturnsIn(t) == Cardinality({i \in DOMAIN returns : t <= returns[i] /\ returns[i] < t + Minute})

\* C2 (as claimed): no rolling 60-second interval contains more than
\* calls_per_minute returns of acquire() (stated for a positive budget)
C2_RollingBound ==
    calls_per_minute >= 1 => \A t \in 0..MaxTime : ReturnsIn(t) <= calls_per_minute

\* C3 (as claimed): calls_made <= calls_per_minute in every state, for every
\* configured calls_per_minute
C3_CounterBound == calls_made <= calls_per_minute

\* C3 (amended): for calls_per_minute >= 1, calls_made <= calls_per_minute in
\* every state
C3_CounterBoundPositive == calls_per_minute >= 1 => calls_made <= calls_per_minute

\* a caller slept through the end of a full window and was admitted
C3_Witness ==
    /\ calls_per_minute >= 1
    /\ calls_made = 1
    /\ window_start > 0
    /\ Len(returns) > calls_per_minute
    /\ returns[Len(returns)] = window_start

(***************************************************************************)
(* Properties of the transfer engine                                       *)
(***************************************************************************)
\* stop_after_attempt(3) of the retry decorator (downloader.py:93)
MaxAttempts == 3

\* requests inside the semaphore-guarded section
InFlight ==
    {r \in Batch : pc[r] \in {"running", "requesting", "opening", "streaming",
                              "written", "fetching"}}

\* the download GETs (not the probe's) issued for r in the current run
DownloadGets(r) == {i \in DOMAIN getlog[r] : ~getlog[r][i].probe}
RangeGets(r) == {i \in DOMAIN getlog[r] : getlog[r][i].range # None}

\* C1: in download_funds_async and in DownloadSession.download_all never
\* more than max_concurrent transfers are inside the semaphore-guarded
\* section, however many requests are queued
C1_GateBound ==
    AsyncPath => Cardinality(InFlight) <= max_concurrent /\ sem >= 0

\* the gate is full while a further request waits for a slot
C1_Witness ==
    /\ engine = "funds" /\ AsyncPath /\ phase = "running"
    /\ Cardinality(InFlight) = max_concurrent
    /\ \E r \in Batch : pc[r] = "queued"

\* the first run completed every request of the batch (downloaded it, or
\* counted it skipped) and the second run finds the files as the first run
\* left them
FirstRunCompleted ==
    \A r \in Batch : prev[r].outcome \in {"downloaded", "skipped"}

\* neither the server nor the network fails in the second run
SecondRunAnswered ==
    \A r \in Batch : faults[r] \subseteq {"exists"}

\* C4 (as claimed, for the requests the first run completed): the second run
\* of the same batch, with the remote content and the local files unchanged,
\* issues no network request, resolves every request by the ledger
\* short-circuit, and reports downloaded = 0 and skipped = number of requests
C4_SecondRunNoTransfer ==
    (run = 2 /\ phase \in {"returned", "raised"} /\ FirstRunCompleted
     /\ SecondRunAnswered) =>
        /\ phase = "returned"
        /\ \A r \in Batch : getlog[r] = <<>> /\ outcome[r] = "skipped"
        /\ stats.downloaded_files = 0
        /\ stats.skipped_files = nreq

\* the requests that ended in failure in the current run
FailedReqs == {r \in Batch : outcome[r] \in {"failed", "escaped"}}

\* C5 (as claimed): a batch on a new downloader never raises; it returns
\* with every request settled, failed = number of failing requests k,
\* downloaded + skipped = n - k, also for k = n; a request whose url answers
\* 404 is never counted as downloaded and fails as soon as its download GET
\* is issued
C5_BatchCompleteness ==
    /\ phase # "raised"
    /\ (phase = "returned" /\ batches = 1) =>
        /\ \A r \in Batch : outcome[r] # "none"
        /\ stats.failed_files = Cardinality(FailedReqs)
        /\ Len(stats.errors) = Cardinality(FailedReqs)
        /\ stats.downloaded_files + stats.skipped_files = nreq - Cardinality(FailedReqs)
        /\ \A r \in Batch : srv[r].status = "notfound" =>
              /\ outcome[r] # "downloaded"
              /\ DownloadGets(r) # {} => outcome[r] = "failed"

\* C6 (as claimed): a transfer that resumes from K > 0 bytes with a Range
\* header and is answered 200 with the full content leaves exactly the remote
\* content on disk
C6_FullAnswerRewrites ==
    \A r \in Batch :
        (pc[r] = "done" /\ outcome[r] = "downloaded"
         /\ tx[r].existing_size > 0 /\ RangeGets(r) # {}
         /\ tx[r].existing_size < Len(srv[r].content)
         /\ tx[r].status_code = 200) =>
            local[r] = File(srv[r].content)

\* what _get_file_info gave, or would have given, for r in the current run
ProbeAtStart(r) == FileInfo(srv[r], atStart[r].served)

\* the ledger had a record for r when the run began and the file at
\* local_path existed with the recorded size
RecordMatchesAtStart(r) ==
    /\ atStart[r].record.present
    /\ atStart[r].file.exists
    /\ Len(atStart[r].file.data) = atStart[r].record.file_size

\* a partial file of 0 < K < remote size bytes that is a prefix of the remote
\* content, and a server that supports ranges and answers every request
PartialAndRanges(r) ==
    /\ atStart[r].file.exists
    /\ 0 < Len(atStart[r].file.data)
    /\ Len(atStart[r].file.data) < Len(srv[r].content)
    /\ IsPrefix(atStart[r].file.data, srv[r].content)
    /\ srv[r].accept_ranges /\ srv[r].honors
    /\ srv[r].status = "ok"

\* the attempt on r has ended and met no connection, file-system or stream
\* error (the file may have been unreadable for the checksum)
AttemptUndisturbed(r) ==
    /\ pc[r] \in {"done", "raised"}
    /\ faults[r] \subseteq {"reread"}

\* the attempt issued exactly one GET, with Range: bytes=K-, was answered 206
\* and left the remote content at local_path
ResumedToIdentical(r) ==
    /\ Cardinality(DownloadGets(r)) = 1
    /\ Cardinality(RangeGets(r)) = 1
    /\ \A i \in RangeGets(r) :
          ~getlog[r][i].probe /\ getlog[r][i].range = Len(atStart[r].file.data)
    /\ outcome[r] = "downloaded"
    /\ tx[r].status_code = 206
    /\ tx[r].mode = "ab"
    /\ local[r] = File(srv[r].content)

ResumeTaken(r) ==
    /\ enable_resume
    /\ ~RecordMatchesAtStart(r)
    /\ ~AsyncPath => ProbeAtStart(r).ranges /\ Truthy(ProbeAtStart(r).size)

C8_RecordOnSuccessOnly ==
    /\ \A r \in Batch :
          /\ saves[r] = IF outcome[r] = "downloaded" THEN 1 ELSE 0
          /\ outcome[r] \in {"failed", "escaped"} => ledger[r] = atStart[r].record
    /\ (phase \in {"returned", "raised"} /\ nreq = 2
        /\ atStart[1].file = NoFile /\ atStart[2].file = NoFile
        /\ srv[1].status = "ok" /\ srv[2].status = "notfound"
        /\ \A r \in Batch : faults[r] \subseteq {"exists", "reread"}) =>
              /\ phase = "returned"
              /\ stats.total_files = 2
              /\ stats.downloaded_files = 1
              /\ stats.failed_files = 1
              /\ stats.skipped_files = 0
              /\ stats.total_bytes = Len(srv[1].content)
              /\ ledger[1].present /\ ledger[1].file_size = Len(srv[1].content)
              /\ ~ledger[2].present

\* C9 (as claimed): a download whose response body has 0 bytes ends as a
\* failure and writes no ledger record of file_size 0
C9_EmptyBodyFails ==
    \A r \in Batch :
        (pc[r] = "done" /\ DownloadGets(r) # {}
         /\ tx[r].status_code \in {200, 206}
         /\ tx[r].downloaded_bytes = tx[r].existing_size) =>
            /\ outcome[r] = "failed"
            /\ ~(ledger[r].present /\ ledger[r].file_size = 0)

\* the recorded error is a transient condition
TransientError(e) ==
    \/ e.error[1] \in {"connection", "stream"}
    \/ e.error[1] = "http" /\ e.error[2] \in {429, 500, 502, 503, 504}

\* C10 (as claimed): a request is marked failed on a transient condition only
\* after MaxAttempts attempts, and a transient failure followed by a success
\* within the attempt limit yields a successful request
C10_TransientRetried ==
    \A r \in Batch :
        /\ (pc[r] = "done" /\ outcome[r] = "failed"
            /\ TransientError(stats.errors[Len(stats.errors)])
            /\ stats.errors[Len(stats.errors)].req = r) =>
               Cardinality(DownloadGets(r)) = MaxAttempts
        /\ (pc[r] = "done" /\ srv[r].status = "transient"
            /\ atStart[r].file = NoFile /\ run = 1
            /\ \A i \in DOMAIN stats.errors :
                  stats.errors[i].req = r => stats.errors[i].error[1] = "http") =>
               outcome[r] = "downloaded"

\* the errors recorded for request r, in order
ErrorsOf(r) == SelectSeq(stats.errors, LAMBDA e : e.req = r)

\* the error is a non-transient condition: HTTP 400/401/403/404 or a local
\* permission error
NonTransientError(e) ==
    \/ e.error[1] = "permission"
    \/ e.error[1] = "http" /\ e.error[2] \in {400, 401, 403, 404}

\* C11 (as claimed): a transfer that fails with a non-transient condition
\* (HTTP 404, a local permission error) has issued exactly one download GET
\* and is reported failed at once: download_file_* returns False after one
\* add_failure and the batch goes on; a download GET that is answered 404
\* always ends the request as failed
C11_NonTransientNotRetried ==
    \A r \in Batch :
        /\ (outcome[r] \in {"failed", "escaped"}
            /\ NonTransientError(ErrorsOf(r)[Len(ErrorsOf(r))])) =>
               /\ pc[r] = "done"
               /\ Cardinality(DownloadGets(r)) = 1
               /\ ledger[r] = atStart[r].record
        /\ (pc[r] = "done" /\ srv[r].status = "notfound" /\ DownloadGets(r) # {}) =>
               /\ outcome[r] = "failed"
               /\ Cardinality(DownloadGets(r)) = 1

\* the run resolves r by the short-circuit on the ledger: the record matches
\* and the file is not empty
ShortCircuited(r) == RecordMatchesAtStart(r) /\ Len(atStart[r].file.data) > 0

\* the skip of download_file_sync lines 167-181: resume is enabled, the file
\* exists, and the probe reports range support and a non-zero size that the
\* local file has reached
ProbeSaysComplete(r) ==
    /\ ~AsyncPath /\ enable_resume
    /\ atStart[r].file.exists
    /\ ProbeAtStart(r).ranges
    /\ Truthy(ProbeAtStart(r).size)
    /\ Len(atStart[r].file.data) >= ProbeAtStart(r).size

\* C12 (as claimed): a request is counted skipped only if a record exists
\* and the file exists with the recorded size; a request whose file was
\* deleted or changed in size is downloaded again
C12_SkipOnlyOnRecordMatch ==
    \A r \in Batch :
        /\ (pc[r] = "done" /\ outcome[r] = "skipped") => RecordMatchesAtStart(r)
        /\ (pc[r] = "done" /\ atStart[r].record.present
            /\ ~RecordMatchesAtStart(r)) =>
               outcome[r] # "skipped" /\ DownloadGets(r) # {}

\* C12 (amended): a request is counted skipped exactly when
\* local_path.exists() does not raise and either (a) a record exists and the
\* file exists with the recorded, non-zero size: the ledger short-circuit,
\* without any network request, or (b) on the sequential path resume is
\* enabled, the file exists and the probe reports range support and a
\* non-zero size not above the file's size.  A skipped request issues no
\* download GET.  A request whose file was deleted or changed in size, and
\* to which (b) does not apply, is not skipped: it issues its download GET
\* (and is downloaded again or counted failed) unless exists() raised.
\* Read when the request has settled, before the files are touched again
C12_ShortCircuitOnRecordMatch ==
    \A r \in Batch :
        (phase \in {"running", "raised"} /\ pc[r] \in {"done", "raised"}) =>
            /\ outcome[r] = "skipped" <=>
                  /\ "exists" \notin faults[r]
                  /\ ShortCircuited(r) \/ ProbeSaysComplete(r)
            /\ (outcome[r] = "skipped" /\ ShortCircuited(r)) => getlog[r] = <<>>
            /\ outcome[r] = "skipped" =>
                  /\ DownloadGets(r) = {}
                  /\ local[r] = atStart[r].file /\ ledger[r] = atStart[r].record
            /\ (~RecordMatchesAtStart(r) /\ ~ProbeSaysComplete(r)) =>
                  /\ outcome[r] # "skipped"
                  /\ DownloadGets(r) # {} \/ "exists" \in faults[r]

\* a recorded file was truncated between the runs and the second run has
\* downloaded the request again
C12_Witness ==
    \E r \in Batch :
        /\ run = 2 /\ phase = "running" /\ pc[r] = "done"
        /\ atStart[r].record.present /\ atStart[r].file.exists
        /\ Len(atStart[r].file.data) < atStart[r].record.file_size
        /\ ~ProbeSaysComplete(r)
        /\ outcome[r] = "downloaded" /\ DownloadGets(r) # {}

\* C13: for calls_per_minute >= 1 and a clock that keeps advancing, every
\* call of acquire() eventually returns, also when a caller waits for the
\* lock while another one sleeps until the next window
C13_AcquireReturns ==
    \A c \in Callers :
        (calls_per_minute >= 1 /\ cpc[c] # "idle") ~> (cpc[c] = "idle")

\* a caller waits for the lock that a sleeping caller holds
C13_Witness ==
    /\ calls_per_minute >= 1
    /\ \E c, d \in Callers :
          /\ cpc[c] = "sleeping" /\ lock = c
          /\ cpc[d] = "waiting"

\* the last error recorded for r is a broken stream
FailedMidStream(r) ==
    /\ pc[r] = "done" /\ outcome[r] = "failed"
    /\ ErrorsOf(r)[Len(ErrorsOf(r))].error[1] = "stream"

\* C14 (as claimed): after an exception in the middle of the stream the file
\* at local_path is as it was when the exception occurred, with all
\* downloaded_bytes bytes that were on disk, neither deleted nor truncated,
\* and the request is counted failed
C14_StreamErrorKeepsFile ==
    \A r \in Batch :
        FailedMidStream(r) =>
            /\ local[r].exists
            /\ Len(local[r].data) = tx[r].downloaded_bytes
            /\ stats.failed_files >= 1

\* every request of the batch has settled and nothing is in flight
AllSettled ==
    /\ \A r \in Batch : pc[r] \in {"done", "raised"}
    /\ InFlight = {}
    /\ AsyncPath => sem = max_concurrent
    /\ engine = "funds" =>
          /\ \A r \in Batch : outcome[r] # "none"
          /\ stats.downloaded_files + stats.skipped_files + stats.failed_files
                >= nreq
    /\ engine = "session" => \A r \in Batch : results[r] # "unset"

\* C15: download_all_funds / download_funds_async /
\* DownloadSession.download_all return only after every request has settled:
\* in the step that returns, and in every state after it until a new batch
\* is started, every request has its outcome, nothing is in flight and every
\* slot is free; and as long as no new batch is started no counter, result,
\* file, record, request or position changes
C15_Barrier ==
    /\ [](phase = "returned" => AllSettled)
    /\ [][(phase = "running" /\ phase' = "returned") =>
             AllSettled /\ UNCHANGED <<local, store, pc, sem, tx, served, outcome,
                                       getlog, results, errors>>]_vars
    /\ [][(phase = "returned" /\ phase' = "returned") =>
             UNCHANGED <<stats, results, errors, local, store, pc, sem, tx,
                         served, outcome, getlog, saves>>]_vars

\* an asynchronous batch of several requests has returned with a failure and
\* a download in its summary
C15_Witness ==
    /\ engine = "funds" /\ AsyncPath /\ phase = "returned" /\ nreq >= 2
    /\ stats.failed_files >= 1 /\ stats.downloaded_files >= 1

\* C16 (as claimed): for every number n >= 0 of recorded failures
\* get_summary() returns without raising, and its errors entry is the list
\* of the last min(n, 10) errors in the order of recording
C16_SummaryLastErrors ==
    summary.called =>
        /\ ~summary.raised
        /\ summary.is_list
        /\ summary.errors = LastSlice(summary.of, 10)

StartedFromPrefix(r) ==
    ~atStart[r].file.exists \/ IsPrefix(atStart[r].file.data, srv[r].content)

\* C18 (as claimed): at every chunk-write boundary of a transfer the local
\* file is a prefix of the remote content and still begins with the
\* existing_size bytes that the attempt took over from the disk
C18_PrefixAtChunkBoundary ==
    \A r \in Batch :
        (pc[r] = "streaming" /\ StartedFromPrefix(r)) =>
            /\ IsPrefix(local[r].data, srv[r].content)
            /\ Len(local[r].data) >= tx[r].existing_size
            /\ SubSeq(local[r].data, 1, tx[r].existing_size)
                  = SubSeq(atStart[r].file.data, 1, tx[r].existing_size)

\* C19 (as claimed): Config(...) with a negative max_concurrent_downloads,
\* request_timeout or max_retries ends in a ValueError
C19_NegativeRejected ==
    (built # "pending"
     /\ (\/ config.max_concurrent_downloads < 0
         \/ config.request_timeout < 0
         \/ config.max_retries < 0)) =>
        built = "ValueError"

\* the returns of acquire() in the current window
ReturnsInWindow == {i \in DOMAIN returns : returns[i] >= window_start}

\* C20: the window check and the increment of acquire() are one step under
\* the lock: at most one caller is inside the locked section, no increment
\* is lost, and calls_made is the number of acquire() calls that have
\* returned in the current window
C20_AtomicCheckAndIncrement ==
    /\ Cardinality({c \in Callers : cpc[c] = "sleeping"}) <= 1
    /\ \A c \in Callers : cpc[c] = "sleeping" <=> lock = c
    /\ calls_made = Cardinality(ReturnsInWindow)

\* two calls have returned in one window while another caller is queued
C20_Witness ==
    /\ calls_made >= 2
    /\ Cardinality(ReturnsInWindow) >= 2
    /\ \E c \in Callers : cpc[c] = "waiting"

\* caller c leaves the queue on the lock in this step
Enters(c) == cpc[c] = "waiting" /\ cpc'[c] # "waiting"

\* caller c ends its sleep in this step
Wakes(c) == cpc[c] = "sleeping" /\ cpc'[c] = "idle"

\* C21: acquire() returns at once while the budget of the current window is
\* not used up; otherwise the caller is suspended until window_start + 1
\* minute, then the window is reset (window_start never moves back) and the
\* caller is admitted as the first call of the new window
C21_SuspendUntilNextWindow ==
    /\ [](\A c \in Callers :
            cpc[c] = "sleeping" =>
                /\ calls_made >= calls_per_minute
                /\ wakeAt[c] = window_start + Minute)
    /\ [][\A c \in Callers :
            /\ (Enters(c) /\ CallsAfterCheck(clock) < calls_per_minute) =>
                  /\ cpc'[c] = "idle"
                  /\ returns' = Append(returns, clock)
                  /\ calls_made' = CallsAfterCheck(clock) + 1
            /\ (Enters(c) /\ CallsAfterCheck(clock) >= calls_per_minute) =>
                  /\ cpc'[c] = "sleeping"
                  /\ returns' = returns
            /\ Wakes(c) =>
                  /\ clock >= window_start + Minute
                  /\ calls_made' = 1
                  /\ window_start' = clock
                  /\ returns' = Append(returns, clock)]_vars
    /\ [][window_start' >= window_start]_vars

\* a caller is suspended with the budget of the window used up
C21_Witness ==
    /\ calls_per_minute >= 1
    /\ calls_made = calls_per_minute
    /\ \E c \in Callers : cpc[c] = "sleeping" /\ clock < wakeAt[c]

\* the probe of the sequential path is reached and fails: HEAD raises, or HEAD
\* is answered 405 and the GET that replaces it is answered with an error
\* status (404, or the 503 of a server that fails its first GET)
ProbeFails(r) ==
    /\ ~AsyncPath
    /\ ~ShortCircuited(r)
    /\ \/ srv[r].head = "error"
       \/ /\ srv[r].head = "405"
          /\ IsError(GetStatus(srv[r], atStart[r].served + 1))

\* the status of the download GET that follows the probe of r
DownloadStatus(r) ==
    GetStatus(srv[r], atStart[r].served + ProbeAtStart(r).gets + 1)

\* C22: a request whose probe fails is not skipped and not failed by the
\* probe: the probe gives "size unknown, no range support", no GET carries a
\* Range header, and the one download GET is issued (unless
\* local_path.exists() raises before it); when that GET is answered 200 and
\* nothing else fails the request is downloaded, written in write mode from
\* byte 0 with the size unknown, and the file holds the remote content; a
\* failure is that of the download GET, the file system or the stream
C22_ProbeFailureRestarts ==
    \A r \in Batch :
        (ProbeFails(r) /\ pc[r] \in {"done", "raised"}) =>
            /\ ProbeAtStart(r).size = None /\ ~ProbeAtStart(r).ranges
            /\ outcome[r] # "skipped"
            /\ RangeGets(r) = {}
            /\ Cardinality(DownloadGets(r)) <= 1
            /\ DownloadGets(r) = {} => "exists" \in faults[r]
            /\ (faults[r] \subseteq {"reread"} /\ ~IsError(DownloadStatus(r))) =>
                  /\ outcome[r] = "downloaded"
                  /\ Cardinality(DownloadGets(r)) = 1
                  /\ tx[r].mode = "wb" /\ tx[r].existing_size = 0
                  /\ tx[r].expected_size = None
                  /\ local[r] = File(srv[r].content)
            /\ outcome[r] \in {"failed", "escaped"} =>
                  \/ faults[r] \ {"reread"} # {}
                  \/ /\ IsError(DownloadStatus(r))
                     /\ ErrorsOf(r)[Len(ErrorsOf(r))].error
                           = <<"http", DownloadStatus(r)>>

\* with a partial file on disk and a probe that raises, the request has been
\* downloaded from byte 0
C22_Witness ==
    \E r \in Batch :
        /\ ProbeFails(r) /\ srv[r].head = "error" /\ enable_resume
        /\ atStart[r].file.exists /\ Len(atStart[r].file.data) > 0
        /\ pc[r] = "done" /\ outcome[r] = "downloaded"
        /\ Len(srv[r].content) > 0 /\ local[r] = File(srv[r].content)

\* range support is not confirmed for r: the asynchronous path never probes,
\* the probe fails, or its answer carries no Accept-Ranges: bytes
RangeNotConfirmed(r) ==
    \/ AsyncPath
    \/ ~srv[r].accept_ranges
    \/ srv[r].head = "error"
    \/ srv[r].head = "405" /\ srv[r].status = "notfound"

\* C23 (as claimed): on both paths a transfer that finds a partial file and
\* has no confirmed range support sends no Range header, opens the file in
\* write mode and writes from byte 0
C23_NoRangeUnlessConfirmed ==
    \A r \in Batch :
        (RangeNotConfirmed(r) /\ pc[r] \in {"streaming", "done"}
         /\ Len(atStart[r].file.data) > 0) =>
            /\ RangeGets(r) = {}
            /\ tx[r].status_code # 0 =>
                  tx[r].mode = "wb" /\ tx[r].existing_size = 0

\* the probe reported a size and the transfer of r has another byte count
SizeMismatch(r) ==
    /\ Truthy(tx[r].expected_size)
    /\ tx[r].downloaded_bytes # tx[r].expected_size

\* the response of r arrived with a success status, the file was opened and
\* the iteration over the chunks ended without an exception
StreamCompleted(r) ==
    /\ tx[r].status_code \in {200, 206}
    /\ faults[r] \subseteq {"reread"}

\* C24: a stream that completes (the iteration over the chunks ends without
\* an exception) with a byte count other than the size the probe reported is
\* a success: the request ends downloaded, downloaded_files grows by one, no
\* failure is recorded, and the one record written holds the actual byte
\* count, which is the size of the file
C24_SizeMismatchIsSuccess ==
    /\ [](\A r \in Batch :
            (pc[r] \in {"done", "raised"} /\ StreamCompleted(r) /\ SizeMismatch(r)) =>
                /\ outcome[r] = "downloaded"
                /\ saves[r] = 1
                /\ ledger[r].present
                /\ ledger[r].file_size = tx[r].downloaded_bytes
                /\ ledger[r].file_size = Len(local[r].data))
    /\ [][\A r \in Batch :
            (/\ pc[r] = "streaming" /\ pc'[r] \in {"done", "raised"}
             /\ faults'[r] \subseteq {"reread"}
             /\ SizeMismatch(r)) =>
                /\ outcome'[r] = "downloaded"
                /\ stats'.downloaded_files = stats.downloaded_files + 1
                /\ stats'.failed_files = stats.failed_files
                /\ stats'.errors = stats.errors]_vars

\* a transfer has completed with fewer bytes than the probe reported
C24_Witness ==
    \E r \in Batch :
        /\ pc[r] = "done" /\ StreamCompleted(r) /\ outcome[r] = "downloaded"
        /\ Truthy(tx[r].expected_size)
        /\ tx[r].downloaded_bytes < tx[r].expected_size
        /\ stats.downloaded_files >= 1

\* bytes the attempt on r wrote to the local file: what the file holds beyond
\* what open(local_path, mode) left of it
BytesWritten(r, f) ==
    Len(f.data) - Len(OpenFile(atStart[r].file, tx[r].mode).data)

\* bytes written by the successful transfers among requests 1..n
RECURSIVE SumWritten(_)
SumWritten(n) ==
    IF n = 0 THEN 0
    ELSE SumWritten(n - 1)
         + (IF outcome[n] = "downloaded" THEN BytesWritten(n, local[n]) ELSE 0)

\* C25 (as claimed): a successful transfer adds to total_bytes the bytes newly
\* written in that attempt, and its record holds the full final size; a
\* skipped or failed request leaves total_bytes unchanged; so when a batch
\* has returned total_bytes is the sum of the bytes newly written by the
\* successful transfers of the batch
C25_TotalBytesNewBytes ==
    /\ [][\A r \in Batch :
            /\ (pc[r] = "streaming" /\ outcome'[r] = "downloaded") =>
                  /\ stats'.total_bytes - stats.total_bytes
                        = BytesWritten(r, local'[r])
                  /\ ledger'[r].file_size = Len(local'[r].data)
            /\ (pc[r] # "done" /\ outcome'[r] \in {"skipped", "failed"}) =>
                  stats'.total_bytes = stats.total_bytes]_vars
    /\ [](phase = "returned" => stats.total_bytes = SumWritten(nreq))

\* the synchronous probe of r succeeds and reports range support and a size
ProbeReportsSize(r) ==
    /\ ~AsyncPath
    /\ srv[r].accept_ranges
    /\ srv[r].cl_header # "absent"
    /\ \/ srv[r].head = "ok"
       \/ srv[r].head = "405" /\ srv[r].status = "ok"

\* C26 (as claimed): with resume enabled, range support confirmed and a local
\* file of at least the reported remote size, the request is treated as
\* complete: no download GET, the file unchanged, no record written, counted
\* skipped
C26_OversizedPartialIsComplete ==
    \A r \in Batch :
        (/\ enable_resume /\ ProbeReportsSize(r)
         /\ atStart[r].file.exists
         /\ Len(atStart[r].file.data) >= ContentLength(srv[r])
         /\ pc[r] = "done") =>
            /\ outcome[r] = "skipped"
            /\ DownloadGets(r) = {}
            /\ local[r] = atStart[r].file
            /\ saves[r] = 0

\* the requests of the batch that have settled: download_file_async has
\* returned or raised
Settled == {r \in Batch : pc[r] \in {"done", "raised"}}
\* the requests of the batch that have settled with the given outcome
SettledAs(o) == {r \in Settled : outcome[r] = o}

\* C27 (as claimed): in download_funds_async, whatever the order in which the
\* transfers complete, every settled request is counted in exactly one
\* counter exactly once and a successful one has written exactly one record:
\* each counter equals the number of requests settled with that outcome, so
\* after m requests have settled downloaded + skipped + failed = m
C27_NoLostUpdate ==
    (engine = "funds" /\ AsyncPath /\ phase # "idle") =>
        /\ stats.downloaded_files = Cardinality(SettledAs("downloaded"))
        /\ stats.skipped_files = Cardinality(SettledAs("skipped"))
        /\ stats.failed_files
              = Cardinality(SettledAs("failed")) + Cardinality(SettledAs("escaped"))
        /\ stats.downloaded_files + stats.skipped_files + stats.failed_files
              = Cardinality(Settled)
        /\ Len(stats.errors) = stats.failed_files
        /\ \A r \in Batch :
              /\ r \in Settled <=> outcome[r] # "none"
              /\ saves[r] = IF outcome[r] = "downloaded" THEN 1 ELSE 0
              /\ outcome[r] = "downloaded" =>
                    /\ ledger[r].present
                    /\ ledger[r].file_size = Len(local[r].data)
                    /\ ledger[r].download_date = run

\* the requests of the batch for which a network fetch has been issued: a
\* download GET of download_file_*, or fetch_etf_data of a DownloadSession
Fetched ==
    {r \in Batch :
        IF engine = "session" THEN pc[r] \in {"fetching", "done"}
        ELSE DownloadGets(r) # {}}

\* C28 (as claimed): no network fetch of a batch is issued without a completed
\* RateLimiter.acquire() for that request: there are at least as many returns
\* of acquire() as requests that fetched
C28_AcquireBeforeFetch == Cardinality(Fetched) <= Len(returns)

\* C29 (as claimed): whenever download_all_funds has returned, also from a
\* further batch of the same ETFDownloader, the three outcome counters add up
\* to total_files
C29_CountersSumToTotal ==
    (engine = "funds" /\ phase = "returned") =>
        stats.downloaded_files + stats.skipped_files + stats.failed_files
            = stats.total_files

\* C30: a semaphore slot is held exactly while its transfer is in flight and
\* is released when the transfer ends by success, failure or exception; every
\* queued request is eventually started, and every running batch eventually
\* returns with all max_concurrent slots free
C30_SlotsReleased ==
    /\ [](AsyncPath => sem + Cardinality(InFlight) = max_concurrent)
    /\ \A r \in Reqs :
          (phase = "running" /\ pc[r] = "queued") ~> (pc[r] # "queued")
    /\ (phase = "running") ~>
          (phase = "returned" /\ InFlight = {} /\ sem = max_concurrent)

\* a batch larger than the gate has returned with all slots free after a
\* transfer that succeeded and one that failed
C30_Witness ==
    /\ engine = "funds" /\ AsyncPath /\ phase = "returned"
    /\ nreq > max_concurrent
    /\ sem = max_concurrent
    /\ \E r, q \in Batch : outcome[r] = "downloaded" /\ outcome[q] = "failed"
====
